---- MODULE Spec2Model ----
(***************************************************************************)
(* Model of generate-aws-sdk/generate.py: main() fans the per-unit         *)
(* pipeline generate(sdk_id, index, total) out over a ThreadPoolExecutor   *)
(* and collects every future before it prints the summary.                 *)
(*                                                                         *)
(* A pipeline touches only its own workspace, so its stages commute with   *)
(* the steps of every other thread.  A worker therefore runs the stages of *)
(* its unit back to back up to the one blocking call, process.wait(), and  *)
(* again from the return of that call to the end of generate().  Each      *)
(* stage is an operator of its own (Locate, Resolve, Synthesize, ...).     *)
(*                                                                         *)
(* Spec is every run over a short unit list; FairSpec adds that enabled    *)
(* steps are eventually taken; PoolSpec is the runs without exceptions     *)
(* over unit lists longer than the pool; ConfigSpec is the runs of one     *)
(* unit over every service key drawn; RerunSpec is main() run again and    *)
(* again over the same output tree; HangSpec is the fair runs in which     *)
(* the first build command never exits.                                    *)
(***************************************************************************)
EXTENDS Integers, Sequences, FiniteSets, TLC

\* ---------------------------------------------------------------- bounds
MaxUnits == 2        \* longest unit list
MaxCpu == 1          \* largest os.cpu_count()
MaxExit == 1         \* largest exit status of the external build command
MaxPoolUnits == 5    \* longest unit list of the runs that saturate the pool
MaxIdent == 3        \* longest namespace part of the service keys drawn
MaxRerunUnits == 1   \* longest unit list of the repeated runs

\* ------------------------------------------------------ program constants
WorkersPerCpu == 4   \* os.cpu_count() * 4
HardCap == 64        \* hard cap of the worker count

\* Workspace entries of one unit, named after the variables of generate().
output_path == "output_path"          \* output/<sdk_id>
model_path == "model_path"            \* output/<sdk_id>/model
build_path == "build_path"            \* output/<sdk_id>/build
model_copy == "model_copy"            \* the source file copied into model/
build_json_path == "build_json_path"  \* output/<sdk_id>/smithy-build.json
build_log == "build_log"              \* output/<sdk_id>/smithy-build.log
errors_txt == "errors_txt"            \* output/<sdk_id>/errors.txt
errors_context == "errors_context"    \* the context windows written to errors.txt

Paths ==
  {output_path, model_path, build_path, model_copy, build_json_path,
   build_log, errors_txt, errors_context}

ExitCodes == 0..MaxExit

\* Exceptions a pipeline can raise; "none" is no exception.
ResolveErrors == {"none", "ParseError", "ResolutionError"}

\* The filesystem call of the Configuration Synthesizer that fails.
SynthFailures ==
  {"none", "makedirs_output", "makedirs_model", "makedirs_build", "copy",
   "open_build_json"}

VARIABLES
  sdks,         \* the unit list of main()
  cpu_count,    \* os.cpu_count()
  max_workers,  \* pool size, 0 until main() computes it
  mainpc,       \* position of the main thread
  task,         \* per submitted position: the state of generate() / its future
  fs,           \* per unit id: the entries that exist in its workspace
  collected,    \* futures as_completed() has handed to the main loop
  key,          \* per unit id: the service key in its description file
  build_json    \* per unit id: the content of its smithy-build.json

vars ==
  <<sdks, cpu_count, max_workers, mainpc, task, fs, collected, key,
    build_json>>

Indices == 1..Len(sdks)

\* The state of one call of generate() before its future is submitted.
NewTask ==
  [pc |-> "unsubmitted", build_result |-> -1, result |-> "unset",
   exc |-> "none", stages |-> <<>>, printed |-> <<>>]

\* ------------------------------------------------------------- strings
\* A Python str is the sequence of its characters.
UpperCase ==
  <<"A", "B", "C", "D", "E", "F", "G", "H", "I", "J", "K", "L", "M", "N",
    "O", "P", "Q", "R", "S", "T", "U", "V", "W", "X", "Y", "Z">>

LowerCase ==
  <<"a", "b", "c", "d", "e", "f", "g", "h", "i", "j", "k", "l", "m", "n",
    "o", "p", "q", "r", "s", "t", "u", "v", "w", "x", "y", "z">>

\* The character class [A-Z].
IsUpper(c) == \E n \in 1..Len(UpperCase) : UpperCase[n] = c

\* str.lower() of one character.
ToLower(c) ==
  IF IsUpper(c)
  THEN LowerCase[CHOOSE n \in 1..Len(UpperCase) : UpperCase[n] = c]
  ELSE c

\* x.lower()
Lower(x) == IF x = <<>> THEN <<>> ELSE [n \in 1..Len(x) |-> ToLower(x[n])]

\* The position of the first occurrence of character sep in x from position
\* n on, 0 when there is none.
RECURSIVE Find(_, _, _)
Find(x, sep, n) ==
  IF n > Len(x) THEN 0 ELSE IF x[n] = sep THEN n ELSE Find(x, sep, n + 1)

\* x.split(sep) for a separator of one character: the pieces between the
\* occurrences of sep, in order.
RECURSIVE Split(_, _)
Split(x, sep) ==
  IF Find(x, sep, 1) = 0
  THEN <<x>>
  ELSE <<SubSeq(x, 1, Find(x, sep, 1) - 1)>>
         \o Split(SubSeq(x, Find(x, sep, 1) + 1, Len(x)), sep)

\* x.replace(old, new): every occurrence of old, found from left to right
\* without overlap, gives way to new; the text put in is not searched again.
RECURSIVE Replace(_, _, _)
Replace(x, old, new) ==
  IF Len(x) < Len(old)
  THEN x
  ELSE IF SubSeq(x, 1, Len(old)) = old
       THEN new \o Replace(SubSeq(x, Len(old) + 1, Len(x)), old, new)
       ELSE <<x[1]>> \o Replace(Tail(x), old, new)

\* Mutant: the pattern has no lookbehind and matches at the start as well.
RegexPositions_NoLookbehind(x) == {n \in 1..Len(x) : IsUpper(x[n])}

\* The matches of (?<!^)(?=[A-Z]) in x: the empty string in front of
\* character n, not at the start of x, with an upper-case letter following.
RegexPositions(x) == {n \in 1..Len(x) : n # 1 /\ IsUpper(x[n])}

\* pattern.sub("_", x) from character n on: an underscore at every match.
RECURSIVE SubFrom(_, _, _)
SubFrom(x, P, n) ==
  IF n > Len(x)
  THEN <<>>
  ELSE (IF n \in P THEN <<"_", x[n]>> ELSE <<x[n]>>) \o SubFrom(x, P, n + 1)

\* The replacement table of snake_case(), in the order it is applied.
Replacements ==
  <<[old |-> <<"a", "_", "w", "_", "s">>, new |-> <<"a", "w", "s">>],
    [old |-> <<"e", "_", "c", "2">>, new |-> <<"e", "c", "2">>],
    [old |-> <<"_", "d", "_", "b">>, new |-> <<"_", "d", "b">>]>>

\* The strings S after the replacements n, n + 1, ... of the table.
RECURSIVE ReplaceAll(_, _)
ReplaceAll(S, n) ==
  IF n > Len(Replacements)
  THEN S
  ELSE ReplaceAll({Replace(x, Replacements[n].old, Replacements[n].new) :
                     x \in S}, n + 1)

\* snake_case(x): the underscores, lower() and the three replace() calls.
snake_case(x) ==
  CHOOSE y \in ReplaceAll({Lower(SubFrom(x, RegexPositions(x), 1))}, 1) : TRUE

\* Mutant: the name is taken after the '#', up to the first underscore.
ModelName_AfterHash(k) == Head(Split(Split(k, "#")[2], "_"))

\* model_name = key.split("#")[0].split(".")[-1]
ModelName(k) ==
  LET segments == Split(Head(Split(k, "#")), ".")
  IN  segments[Len(segments)]

\* namespace = "aws." + module_name
Namespace(name) == <<"a", "w", "s", ".">> \o snake_case(name)

GENERATED_DIRNAME == "generated"

\* The plugins.unison-codegen entry of build_json for service key k; the
\* other entries of the document are literals.
BuildJson(k) ==
  [service |-> k, name |-> ModelName(k), namespace |-> Namespace(ModelName(k)),
   outputDir |-> GENERATED_DIRNAME]

\* No smithy-build.json has been written.
NoDoc == [service |-> <<>>, name |-> <<>>, namespace |-> <<>>, outputDir |-> ""]

\* The service key of the S3 model.
S3Key ==
  <<"c", "o", "m", ".", "a", "m", "a", "z", "o", "n", "a", "w", "s", ".",
    "s", "3", "#", "A", "m", "a", "z", "o", "n", "S", "3">>

\* ------------------------------------------------- the per-unit pipeline
\* A stage takes the state u of one call of generate(), with u.files the
\* entries of the unit's workspace, and returns the state after the stage.

\* An exception leaves generate(): the future holds it.
Raise(u, e) == [u EXCEPT !.pc = "raised", !.exc = e]

\* Mutant: the return after the message is missing and the pipeline goes on.
Locate_NoReturn(u, found) ==
  LET v == [u EXCEPT !.stages = Append(@, "Locator")]
  IN  IF ~found
      THEN [v EXCEPT !.pc = "resolve",
                     !.printed = Append(@, "No JSON files found")]
      ELSE [v EXCEPT !.pc = "resolve"]

\* Unit Locator: glob for the description files; none found prints the
\* message and returns.
Locate(u, found) ==
  LET v == [u EXCEPT !.stages = Append(@, "Locator")]
  IN  IF ~found
      THEN [v EXCEPT !.pc = "finished",
                     !.printed = Append(@, "No JSON files found")]
      ELSE [v EXCEPT !.pc = "resolve"]

\* Mutant: the workspace directory is made before the description is read.
Resolve_AfterMakedirs(u, err) ==
  LET v == [u EXCEPT !.stages = Append(@, "Resolver"),
                     !.files = @ \cup {output_path}]
  IN  IF err # "none" THEN Raise(v, err) ELSE [v EXCEPT !.pc = "synth"]

\* Service-Key Resolver: json.load and the jq query; touches no file of the
\* workspace.
Resolve(u, err) ==
  LET v == [u EXCEPT !.stages = Append(@, "Resolver")]
  IN  IF err # "none" THEN Raise(v, err) ELSE [v EXCEPT !.pc = "synth"]

\* Mutant: the source file is not copied into model/.
SynthCreated_NoCopy(fail) ==
  CASE fail = "makedirs_output" -> {}
    [] fail = "makedirs_model" -> {output_path}
    [] fail = "makedirs_build" -> {output_path, model_path}
    [] fail = "copy" -> {output_path, model_path, build_path}
    [] fail = "open_build_json" -> {output_path, model_path, build_path}
    [] OTHER -> {output_path, model_path, build_path, build_json_path}

\* The workspace entries the Synthesizer has created when call `fail` raises.
SynthCreated(fail) ==
  CASE fail = "makedirs_output" -> {}
    [] fail = "makedirs_model" -> {output_path}
    [] fail = "makedirs_build" -> {output_path, model_path}
    [] fail = "copy" -> {output_path, model_path, build_path}
    [] fail = "open_build_json" ->
         {output_path, model_path, build_path, model_copy}
    [] OTHER ->
         {output_path, model_path, build_path, model_copy, build_json_path}

\* Mutant: makedirs() without exist_ok.
ExistOk_False == FALSE

\* The exist_ok argument of the three makedirs() calls.
ExistOk == TRUE

\* The makedirs() call that raises FileExistsError: the first whose
\* directory exists, when exist_ok is not set.
SynthClash(files) ==
  CASE ExistOk -> "none"
    [] output_path \in files -> "makedirs_output"
    [] model_path \in files -> "makedirs_model"
    [] build_path \in files -> "makedirs_build"
    [] OTHER -> "none"

\* The calls of the Synthesizer in program order.
SynthCalls ==
  <<"makedirs_output", "makedirs_model", "makedirs_build", "copy",
    "open_build_json", "none">>

CallIndex(call) == CHOOSE n \in 1..Len(SynthCalls) : SynthCalls[n] = call

\* Configuration Synthesizer: three makedirs(exist_ok=True), the copy of the
\* source file and the dump of smithy-build.json, in that order.  The call
\* `fail` raises, or an earlier makedirs() that finds its directory.
Synthesize(u, fail) ==
  LET clash == SynthClash(u.files)
      first == IF CallIndex(clash) <= CallIndex(fail) THEN clash ELSE fail
      v == [u EXCEPT !.stages = Append(@, "Synthesizer"),
                     !.files = @ \cup SynthCreated(first)]
  IN  IF first = "none"
      THEN [v EXCEPT !.pc = "build", !.doc = BuildJson(u.key)]
      ELSE IF first = clash
           THEN Raise(v, "FileExistsError")
           ELSE Raise(v, "IOError")

\* Build Invoker, first half: print the progress line, open the log for
\* writing and start the external command.
BuildOpen(u, fail) ==
  LET v == [u EXCEPT !.stages = Append(@, "Invoker"),
                     !.printed = Append(@, "building")]
  IN  IF fail
      THEN Raise(v, "IOError")
      ELSE [v EXCEPT !.pc = "building", !.files = @ \cup {build_log}]

\* Mutant: the comparison is inverted.
BuildOutcome_Inverted(rc) == IF rc # 0 THEN "success" ELSE "failed"

\* result["build"] from the exit status.
BuildOutcome(rc) == IF rc = 0 THEN "success" ELSE "failed"

\* Build Invoker, second half: process.wait() returns the exit status rc,
\* the log is closed and the outcome is recorded.
BuildWait(u, rc) ==
  [u EXCEPT !.pc = "extract", !.build_result = rc,
            !.result = BuildOutcome(rc)]

\* Mutant: the extractor runs after every build.
NeedsExtract_Always(u) == TRUE

\* Whether generate() runs the Diagnostic Extractor.
NeedsExtract(u) == u.build_result # 0

\* What open(errors.txt, "w") and file.write(output) leave: the file, with
\* the context windows when the marker search matched.
ErrorsWritten(matched) ==
  IF matched THEN {errors_txt, errors_context} ELSE {errors_txt}

\* Diagnostic Extractor: only after a non-zero status; the search output,
\* empty or not, is written to errors.txt.
Extract(u, fail, matched) ==
  IF ~NeedsExtract(u)
  THEN [u EXCEPT !.pc = "clean"]
  ELSE LET v == [u EXCEPT !.stages = Append(@, "Extractor")]
       IN  IF fail
           THEN Raise(v, "IOError")
           ELSE [v EXCEPT !.pc = "clean",
                          !.files = (@ \ {errors_context})
                                      \cup ErrorsWritten(matched)]

\* Mutant: the cleaner removes the whole workspace, not the build subdirectory.
Clean_Workspace(u, fail) ==
  LET v == [u EXCEPT !.stages = Append(@, "Cleaner")]
  IN  IF fail \/ build_path \notin u.files
      THEN Raise(v, "IOError")
      ELSE [v EXCEPT !.pc = "report", !.files = {}]

\* Workspace Cleaner: shutil.rmtree of the build subdirectory, which raises
\* when the directory is missing or cannot be removed.
Clean(u, fail) ==
  LET v == [u EXCEPT !.stages = Append(@, "Cleaner")]
  IN  IF fail \/ build_path \notin u.files
      THEN Raise(v, "IOError")
      ELSE [v EXCEPT !.pc = "report", !.files = @ \ {build_path}]

\* Mutant: generate() returns without printing the result record.
Report_Silent(u) == [u EXCEPT !.pc = "finished"]

\* The result record is printed and generate() returns.
Report(u) ==
  [u EXCEPT !.pc = "finished", !.stages = Append(@, "Report"),
            !.printed = Append(@, u.result)]

\* The choices of one pipeline: what the unit's input holds and which calls
\* fail.
NoFault ==
  [found |-> TRUE, resolve |-> "none", synth |-> "none", open_log |-> FALSE,
   extract |-> FALSE, matched |-> FALSE, rmtree |-> FALSE]

\* Choices of the stages before process.wait(): no description file, or one
\* failing call (the stages after it do not run), or none.
PrepareChoices ==
  {NoFault, [NoFault EXCEPT !.found = FALSE],
   [NoFault EXCEPT !.open_log = TRUE]}
  \cup {[NoFault EXCEPT !.resolve = r] : r \in ResolveErrors}
  \cup {[NoFault EXCEPT !.synth = s] : s \in SynthFailures}

\* Choices of the stages after process.wait().
FinishChoices ==
  {NoFault, [NoFault EXCEPT !.matched = TRUE],
   [NoFault EXCEPT !.extract = TRUE], [NoFault EXCEPT !.rmtree = TRUE],
   [NoFault EXCEPT !.matched = TRUE, !.rmtree = TRUE]}

\* generate() blocks in process.wait() or has ended.
Blocked(u) == u.pc \in {"building", "finished", "raised"}

\* Mutant: the cleaner runs in the extractor's place and the extractor in
\* the cleaner's.
Stage_CleanFirst(u, c) ==
  CASE u.pc = "locate" -> Locate(u, c.found)
    [] u.pc = "resolve" -> Resolve(u, c.resolve)
    [] u.pc = "synth" -> Synthesize(u, c.synth)
    [] u.pc = "build" -> BuildOpen(u, c.open_log)
    [] u.pc = "extract" ->
         IF Clean(u, c.rmtree).pc = "raised"
         THEN Clean(u, c.rmtree)
         ELSE [Clean(u, c.rmtree) EXCEPT !.pc = "clean"]
    [] u.pc = "clean" ->
         IF Extract(u, c.extract, c.matched).pc = "raised"
         THEN Extract(u, c.extract, c.matched)
         ELSE [Extract(u, c.extract, c.matched) EXCEPT !.pc = "report"]
    [] u.pc = "report" -> Report(u)
    [] OTHER -> u

\* The next stage of generate() under choices c.
Stage(u, c) ==
  CASE u.pc = "locate" -> Locate(u, c.found)
    [] u.pc = "resolve" -> Resolve(u, c.resolve)
    [] u.pc = "synth" -> Synthesize(u, c.synth)
    [] u.pc = "build" -> BuildOpen(u, c.open_log)
    [] u.pc = "extract" -> Extract(u, c.extract, c.matched)
    [] u.pc = "clean" -> Clean(u, c.rmtree)
    [] u.pc = "report" -> Report(u)
    [] OTHER -> u

\* The stages of generate() in program order, and the print that ends it.
StageOrder ==
  <<"Locator", "Resolver", "Synthesizer", "Invoker", "Extractor", "Cleaner",
    "Report">>

\* One more stage, unless generate() is blocked or has ended.
Advance(u, c) == IF Blocked(u) THEN u ELSE Stage(u, c)

\* The states U after n more stages.
RECURSIVE RunFrom(_, _, _)
RunFrom(U, c, n) ==
  IF n = 0 THEN U ELSE RunFrom({Advance(u, c) : u \in U}, c, n - 1)

\* generate() runs from state u, stage after stage, up to the blocking call
\* or its end: the set of the one state it reaches.
Run(u, c) == RunFrom({u}, c, Len(StageOrder))

\* ------------------------------------------------------------ scheduler
Min(a, b) == IF a <= b THEN a ELSE b

\* Mutant: the pool size ignores the available parallelism.
MaxWorkers_NoCpu(n, p) == Min(n, HardCap)

\* max_workers = min(len(sdks), os.cpu_count() * 4, 64)
MaxWorkers(n, p) == Min(n, Min(p * WorkersPerCpu, HardCap))

\* Mutant: the unit id is left out of the path.
WorkspacePath_Shared(i) == sdks[1]

\* output_path = OUTPUT_PATH/<sdk_id>: the workspace of position i.
WorkspacePath(i) == sdks[i]

\* The state of generate() for position i together with its workspace, the
\* service key of its description file and its smithy-build.json.
Unit(i) ==
  [pc |-> task[i].pc, build_result |-> task[i].build_result,
   result |-> task[i].result, exc |-> task[i].exc,
   stages |-> task[i].stages, printed |-> task[i].printed,
   files |-> fs[WorkspacePath(i)], key |-> key[sdks[i]],
   doc |-> build_json[WorkspacePath(i)]]

\* The part of a pipeline state that is the task's, without the workspace.
TaskOf(u) ==
  [pc |-> u.pc, build_result |-> u.build_result, result |-> u.result,
   exc |-> u.exc, stages |-> u.stages, printed |-> u.printed]

\* Positions whose generate() call is running on a worker thread.
Running == {i \in Indices : task[i].pc = "building"}

\* Mutant: the wait for a future times out and a running one counts as done.
Done_Timeout ==
  {i \in Indices : task[i].pc \in {"finished", "raised", "building"}}

\* Positions whose future is done.
Done == {i \in Indices : task[i].pc \in {"finished", "raised"}}

\* Positions whose pipeline raised.
Raised == {i \in Indices : task[i].exc # "none"}

\* The pipeline of position i has moved to state u.
Moved(i, u) ==
  /\ task' = [task EXCEPT ![i] = TaskOf(u)]
  /\ fs' = [fs EXCEPT ![WorkspacePath(i)] = u.files]
  /\ build_json' = [build_json EXCEPT ![WorkspacePath(i)] = u.doc]

\* The state at the start of main() for a unit list of at most n units.
InitWith(n) ==
  /\ sdks \in {[i \in 1..k |-> i] : k \in 0..n}
  /\ cpu_count \in 1..MaxCpu
  /\ max_workers = 0
  /\ mainpc = "start"
  /\ task = [i \in Indices |-> NewTask]
  /\ fs = [id \in {sdks[i] : i \in Indices} |-> {}]
  /\ collected = {}
  /\ key = [id \in {sdks[i] : i \in Indices} |-> S3Key]
  /\ build_json = [id \in {sdks[i] : i \in Indices} |-> NoDoc]

Init == InitWith(MaxUnits)

\* main() computes the pool size and constructs the executor, which raises
\* ValueError when max_workers is not positive.
CreateExecutor ==
  /\ mainpc = "start"
  /\ max_workers' = MaxWorkers(Len(sdks), cpu_count)
  /\ mainpc' = IF max_workers' <= 0 THEN "crashed" ELSE "submit"
  /\ UNCHANGED <<sdks, cpu_count, task, fs, collected, key, build_json>>

\* Mutant: a unit that did not succeed is submitted again.
Submit_Retry ==
  /\ mainpc = "submit"
  /\ \E i \in Indices :
       \/ /\ task[i].pc = "unsubmitted"
          /\ \A j \in 1..(i - 1) : task[j].pc # "unsubmitted"
          /\ task' = [task EXCEPT ![i].pc = "pending"]
          /\ mainpc' = IF i = Len(sdks) THEN "collect" ELSE "submit"
       \/ /\ task[i].pc \in {"finished", "raised"}
          /\ task[i].result # "success"
          /\ task' = [task EXCEPT ![i].pc = "pending"]
          /\ UNCHANGED mainpc
  /\ UNCHANGED <<sdks, cpu_count, max_workers, fs, collected, key, build_json>>

\* executor.submit(gen, sdk, i + 1) for the next unit of the list.
Submit ==
  /\ mainpc = "submit"
  /\ \E i \in Indices :
       /\ task[i].pc = "unsubmitted"
       /\ \A j \in 1..(i - 1) : task[j].pc # "unsubmitted"
       /\ task' = [task EXCEPT ![i].pc = "pending"]
       /\ mainpc' = IF i = Len(sdks) THEN "collect" ELSE "submit"
  /\ UNCHANGED <<sdks, cpu_count, max_workers, fs, collected, key, build_json>>

\* A free worker takes the oldest queued work item and runs generate() up to
\* process.wait(), under one of the choices C.
StartTaskWith(i, C) ==
  /\ task[i].pc = "pending"
  /\ \A j \in 1..(i - 1) : task[j].pc # "pending"
  /\ Cardinality(Running) < max_workers
  /\ \E c \in C :
       \E u \in Run([Unit(i) EXCEPT !.pc = "locate"], c) : Moved(i, u)
  /\ UNCHANGED <<sdks, cpu_count, max_workers, mainpc, collected, key>>

StartTask(i) == StartTaskWith(i, PrepareChoices)

\* The external build command of position i exits with a status of RC and
\* generate() runs to its end, under one of the choices C.
FinishBuildWith(i, RC, C) ==
  /\ task[i].pc = "building"
  /\ \E rc \in RC, c \in C :
       \E u \in Run(BuildWait(Unit(i), rc), c) : Moved(i, u)
  /\ UNCHANGED <<sdks, cpu_count, max_workers, mainpc, collected, key>>

FinishBuild(i) == FinishBuildWith(i, ExitCodes, FinishChoices)

\* Mutant: the handler catches OSError only.
Caught_OnlyOSError(e) == e = "IOError"

\* `except Exception` catches every exception a pipeline raises.
Caught(e) ==
  e \in {"ParseError", "ResolutionError", "IOError", "FileExistsError"}

\* The main loop takes a completed future: future.result() re-raises the
\* pipeline's exception, which is printed with the unit id.
Collect(i) ==
  /\ mainpc = "collect"
  /\ i \in Done \ collected
  /\ collected' = collected \cup {i}
  /\ IF task[i].exc = "none"
     THEN UNCHANGED <<task, mainpc>>
     ELSE IF Caught(task[i].exc)
          THEN /\ task' = [task EXCEPT ![i].printed =
                             Append(@, "ERROR: Failed to generate")]
               /\ UNCHANGED mainpc
          ELSE /\ mainpc' = "crashed"
               /\ UNCHANGED task
  /\ UNCHANGED <<sdks, cpu_count, max_workers, fs, key, build_json>>

\* Mutant: the loop ends after the first future.
AllCollected_First == collected # {}

\* as_completed() has yielded every future.
AllCollected == collected = Indices

\* The executor is shut down and the summary is printed.
Summary ==
  /\ mainpc = "collect"
  /\ AllCollected
  /\ mainpc' = "done"
  /\ UNCHANGED
       <<sdks, cpu_count, max_workers, task, fs, collected, key, build_json>>

Next ==
  \/ CreateExecutor
  \/ Submit
  \/ \E i \in Indices : StartTask(i)
  \/ \E i \in Indices : FinishBuild(i)
  \/ \E i \in Indices : Collect(i)
  \/ Summary

Spec == Init /\ [][Next]_vars

\* Runs in which the threads keep being scheduled and every external build
\* command exits: some enabled step is eventually taken.
FairSpec == Init /\ [][Next]_vars /\ WF_vars(Next)

\* Runs over unit lists longer than the pool, in which every unit has its
\* description file and no stage raises.
PoolInit == InitWith(MaxPoolUnits)

PoolStartTask(i) == StartTaskWith(i, {NoFault})

PoolFinishBuild(i) == FinishBuildWith(i, ExitCodes, {NoFault})

PoolNext ==
  \/ CreateExecutor
  \/ Submit
  \/ \E i \in Indices : PoolStartTask(i)
  \/ \E i \in Indices : PoolFinishBuild(i)
  \/ \E i \in Indices : Collect(i)
  \/ Summary

PoolSpec == PoolInit /\ [][PoolNext]_vars

\* Positions whose external build command exits: all but the first, whose
\* command hangs once it is started.
Exiting == {i \in Indices : i # 1}

\* Runs in which the build command of the first unit never exits, while the
\* threads keep being scheduled and every other build command exits.
HangNext ==
  \/ CreateExecutor
  \/ Submit
  \/ \E i \in Indices : StartTask(i)
  \/ \E i \in Exiting : FinishBuild(i)
  \/ \E i \in Indices : Collect(i)
  \/ Summary

HangSpec == Init /\ [][HangNext]_vars /\ WF_vars(HangNext)

\* main() has returned or died.
RunEnded == mainpc \in {"done", "crashed"}

\* main() is run again over the output tree the runs before it left.
Rerun ==
  /\ RunEnded
  /\ mainpc' = "start"
  /\ max_workers' = 0
  /\ task' = [i \in Indices |-> NewTask]
  /\ collected' = {}
  /\ UNCHANGED <<sdks, cpu_count, fs, key, build_json>>

\* Runs of main(), one after the other, over the same output tree.
RerunInit == InitWith(MaxRerunUnits)

RerunNext == Next \/ Rerun

RerunSpec == RerunInit /\ [][RerunNext]_vars

\* The characters the service keys are drawn from: the letters and the digit
\* of the replacement table, a letter outside it, '_' and '.'.
KeyChars == {"A", "W", "S", "D", "B", "E", "C", "2", "o", "_", "."}

\* The namespace parts drawn: every string of at most n of these characters.
KeyHeads(n) == UNION {[1..m -> KeyChars] : m \in 1..n}

\* What follows the namespace part of a service key: '#' and the shape name.
KeyTails == {<<"#", "N">>, <<"#", "o", ".", "N">>}

DynamoDBKey ==
  <<"D", "y", "n", "a", "m", "o", "D", "B", "#", "D", "y", "n", "a", "m",
    "o", "D", "B", "_", "2", "0">>

AWSLambdaKey == <<"o", ".", "A", "W", "S", "L", "a", "m", "b", "d", "a", "#", "N">>

\* The service keys a description file may hold.
Keys ==
  {h \o t : h \in KeyHeads(MaxIdent), t \in KeyTails}
    \cup {S3Key, DynamoDBKey, AWSLambdaKey}

\* Runs of one unit whose description file holds any of the service keys and
\* whose pipeline meets no failing call.
ConfigInit ==
  /\ sdks = <<1>>
  /\ cpu_count = 1
  /\ max_workers = 0
  /\ mainpc = "start"
  /\ task = [i \in Indices |-> NewTask]
  /\ fs = [id \in {sdks[i] : i \in Indices} |-> {}]
  /\ collected = {}
  /\ key \in [{sdks[i] : i \in Indices} -> Keys]
  /\ build_json = [id \in {sdks[i] : i \in Indices} |-> NoDoc]

ConfigFinishBuild(i) == FinishBuildWith(i, {0}, {NoFault})

ConfigNext ==
  \/ CreateExecutor
  \/ Submit
  \/ \E i \in Indices : PoolStartTask(i)
  \/ \E i \in Indices : ConfigFinishBuild(i)
  \/ \E i \in Indices : Collect(i)
  \/ Summary

ConfigSpec == ConfigInit /\ [][ConfigNext]_vars

\* ------------------------------------------------------- unit lifecycle
\* The Scheduler's state of position i:
\* Pending -> Running -> {Succeeded, Failed, Skipped, Errored}.
Status(i) ==
  CASE task[i].pc \in {"unsubmitted", "pending"} -> "Pending"
    [] task[i].pc = "raised" -> "Errored"
    [] task[i].pc = "finished" /\ task[i].result = "success" -> "Succeeded"
    [] task[i].pc = "finished" /\ task[i].result = "failed" -> "Failed"
    [] task[i].pc = "finished" /\ task[i].result = "unset" -> "Skipped"
    [] OTHER -> "Running"

Terminal == {"Succeeded", "Failed", "Skipped", "Errored"}

\* The line that reports each terminal state.
ReportLine(st) ==
  CASE st = "Succeeded" -> "success"
    [] st = "Failed" -> "failed"
    [] st = "Skipped" -> "No JSON files found"
    [] OTHER -> "ERROR: Failed to generate"

IsTerminalLine(l) == l \in {ReportLine(st) : st \in Terminal}

\* The terminal reports printed for position i.
TerminalReports(i) == SelectSeq(task[i].printed, IsTerminalLine)

Submitted == {i \in Indices : task[i].pc # "unsubmitted"}

Workspace(i) == fs[WorkspacePath(i)]

StagesOf(i) == {task[i].stages[k] : k \in 1..Len(task[i].stages)}

\* ---------------------------------------------------------------- claims

\* C1: the number of units whose external build invocation is active at the
\* same time is at most min(N, 4 * P, 64), for N units and parallelism P.
C1_ConcurrencyBound ==
  /\ Cardinality(Running) <= Len(sdks)
  /\ Cardinality(Running) <= 4 * cpu_count
  /\ Cardinality(Running) <= 64

\* C1 witness: the pool is saturated below N: 4 * P builds are active while
\* a further unit waits in the queue.
C1_Witness ==
  /\ Cardinality(Running) = 4 * cpu_count
  /\ Cardinality(Running) < Len(sdks)
  /\ \E i \in Indices : task[i].pc = "pending"

\* C2: every submitted unit is reported in at most one terminal state at any
\* time, a collected unit in exactly one, which is the state it ended in;
\* when the run ends the terminal reports are as many as the submitted units.
C2_ExactlyOneReport ==
  /\ \A i \in Indices :
       /\ Len(TerminalReports(i)) <= 1
       /\ i \in collected =>
            TerminalReports(i) = <<ReportLine(Status(i))>>
       /\ TerminalReports(i) # <<>> => Status(i) \in Terminal
  /\ RunEnded =>
       \A i \in Submitted : Len(TerminalReports(i)) = 1

\* C2 witness: a run has ended with one unit reported by generate() and one
\* that raised and was reported by the main loop.
C2_Witness ==
  /\ mainpc = "done"
  /\ \E i, j \in Indices :
       /\ Status(i) \in {"Succeeded", "Failed", "Skipped"}
       /\ Status(j) = "Errored"
       /\ Len(TerminalReports(i)) = 1 /\ Len(TerminalReports(j)) = 1

\* C3: after a unit's pipeline completes, on every exit path (success, build
\* failure, exception of any stage), its build subdirectory does not exist.
C3_BuildDirRemoved ==
  \A i \in Indices :
    Status(i) \in Terminal => build_path \notin Workspace(i)

\* C4 as stated: after a unit reaches any terminal state its model/
\* directory and smithy-build.json exist.
C4_Original ==
  \A i \in Indices :
    Status(i) \in Terminal =>
      {model_path, build_json_path} \subseteq Workspace(i)

\* C4 amended: after a unit reaches Succeeded or Failed, its model/
\* directory and smithy-build.json exist.
C4_ModelAndConfigKept ==
  \A i \in Indices :
    Status(i) \in {"Succeeded", "Failed"} =>
      {model_path, build_json_path} \subseteq Workspace(i)

\* C4 witness: one unit has Succeeded and another has Failed, both after the
\* cleaner removed their build subdirectory.
C4_Witness ==
  \E i, j \in Indices :
    /\ Status(i) = "Succeeded" /\ Status(j) = "Failed"
    /\ build_path \notin Workspace(i) \cup Workspace(j)

\* The pipeline of position i has printed the Locator's no-source message.
NoSource(i) ==
  \E k \in 1..Len(task[i].printed) :
    task[i].printed[k] = "No JSON files found"

\* Everything of the positions other than i, and the main thread.
Others(i) ==
  <<[j \in Indices \ {i} |-> task[j]], [j \in Indices \ {i} |-> Workspace(j)],
    mainpc, collected, max_workers>>

\* C5: an exception raised by a stage of one unit's pipeline puts that unit,
\* and no other, in Errored: the raising step changes nothing of the other
\* units or of the main thread, main() dies only before it has submitted any
\* unit, and once a unit has raised the run still reaches the summary with
\* every unit in a terminal state and the error line printed for the unit.
C5_ExceptionIsolated ==
  /\ [][\A i \in Indices :
          (task[i].exc = "none" /\ task'[i].exc # "none") =>
            /\ Status(i)' = "Errored"
            /\ Others(i)' = Others(i)]_vars
  /\ [](mainpc = "crashed" => Submitted = {})
  /\ (Raised # {}) ~>
       /\ mainpc = "done"
       /\ \A i \in Indices : Status(i) \in Terminal
       /\ \A i \in Raised :
            TerminalReports(i) = <<"ERROR: Failed to generate">>

\* C5 witness: the run is over, one unit raised and a unit submitted after it
\* ran its build to the end.
C5_Witness ==
  /\ mainpc = "done"
  /\ \E i, j \in Indices :
       /\ i < j
       /\ Status(i) = "Errored"
       /\ Status(j) \in {"Succeeded", "Failed"}

\* C6: the summary is printed only after every submitted unit has reached a
\* terminal state: never while a unit is Pending or Running.
C6_SummaryAfterAll ==
  mainpc = "done" =>
    /\ Submitted = Indices
    /\ \A i \in Indices : Status(i) \in Terminal

\* C6 witness: the summary of a run of several units with different outcomes
\* is printed.
C6_Witness ==
  /\ mainpc = "done"
  /\ \E i, j \in Indices : Status(i) = "Succeeded" /\ Status(j) = "Failed"

C8_SkippedUnit ==
  /\ [][\A i \in Indices :
          (~NoSource(i) /\ NoSource(i)') =>
            /\ Status(i)' = "Skipped"
            /\ task'[i].exc = "none"
            /\ task'[i].stages = <<"Locator">>
            /\ task'[i].printed = <<"No JSON files found">>
            /\ fs' = fs
            /\ Others(i)' = Others(i)]_vars
  /\ [](\A i \in Indices :
          Status(i) = "Skipped" =>
            NoSource(i) /\ "Invoker" \notin StagesOf(i))
  /\ (\E i \in Indices : Status(i) = "Skipped") ~>
       /\ mainpc = "done"
       /\ \A i \in Indices : Status(i) \in Terminal

\* C8 witness: a unit was Skipped and a unit submitted after it was built.
C8_Witness ==
  \E i, j \in Indices :
    /\ i < j
    /\ Status(i) = "Skipped"
    /\ Workspace(i) = {}
    /\ Status(j) = "Succeeded"

\* C9: the Diagnostic Extractor has run for a unit only if the unit's Build
\* Invoker returned a non-zero status in this execution; never for a unit
\* that Succeeded, was Skipped, or raised before or without a build failure.
C9_ExtractorOnlyOnFailure ==
  \A i \in Indices :
    /\ "Extractor" \in StagesOf(i) =>
         /\ "Invoker" \in StagesOf(i)
         /\ task[i].build_result \in ExitCodes \ {0}
         /\ Status(i) \in {"Failed", "Errored"}
    /\ {errors_txt, errors_context} \cap Workspace(i) # {} =>
         "Extractor" \in StagesOf(i)

\* C9 witness: a build exited non-zero and the extractor ran.
C9_Witness ==
  \E i \in Indices :
    /\ Status(i) = "Failed"
    /\ "Extractor" \in StagesOf(i)
    /\ task[i].build_result # 0

\* The build command of position i has exited.
Exited(i) == task[i].build_result \in ExitCodes

\* The stage that ran last in the pipeline of position i.
LastStage(i) == task[i].stages[Len(task[i].stages)]

\* C10 as stated: whenever the build exits non-zero errors.txt is written
\* and the unit is reported Failed; whenever it exits zero the unit is
\* reported Succeeded.
C10_Original ==
  \A i \in Indices :
    (Exited(i) /\ Status(i) \in Terminal) =>
      IF task[i].build_result # 0
      THEN errors_txt \in Workspace(i) /\ Status(i) = "Failed"
      ELSE Status(i) = "Succeeded"

\* C10 amended: the outcome recorded for a build is failed after a non-zero
\* status and success after status zero; a unit ends Failed only with
\* errors.txt written, empty or not; and a unit whose build exited ends
\* otherwise than Failed (non-zero) or Succeeded (zero) only as Errored by an
\* exception of the write of errors.txt or of the removal of the build
\* subdirectory.
C10_OutcomeByExitStatus ==
  \A i \in Indices :
    Exited(i) =>
      /\ task[i].build_result # 0 => task[i].result = "failed"
      /\ task[i].build_result = 0 => task[i].result = "success"
      /\ Status(i) = "Failed" =>
           task[i].build_result # 0 /\ errors_txt \in Workspace(i)
      /\ Status(i) = "Succeeded" => task[i].build_result = 0
      /\ Status(i) \in {"Failed", "Succeeded", "Errored"}
      /\ Status(i) = "Errored" =>
           /\ task[i].exc = "IOError"
           /\ LastStage(i) \in {"Extractor", "Cleaner"}
           /\ (LastStage(i) = "Cleaner" /\ task[i].build_result # 0) =>
                errors_txt \in Workspace(i)

\* C10 witness: a build exited non-zero, the marker search matched nothing,
\* and the unit is Failed with an empty errors.txt.
C10_Witness ==
  \E i \in Indices :
    /\ Status(i) = "Failed"
    /\ task[i].build_result # 0
    /\ errors_txt \in Workspace(i)
    /\ errors_context \notin Workspace(i)

\* The service key of position i and the smithy-build.json of its workspace.
KeyOf(i) == key[sdks[i]]

DocOf(i) == build_json[WorkspacePath(i)]

\* Positions whose Synthesizer has written smithy-build.json in this run.
Configured == {i \in Indices : "Invoker" \in StagesOf(i)}

\* n is the last dot-separated segment of the part of k before its '#'.
IsModelNameOf(n, k) ==
  \E h \in 1..Len(k) :
    /\ k[h] = "#"
    /\ \A g \in 1..(h - 1) : k[g] # "#"
    /\ \E a \in 0..(h - 1) :
         /\ n = SubSeq(k, a + 1, h - 1)
         /\ \A g \in (a + 1)..(h - 1) : k[g] # "."
         /\ a = 0 \/ k[a] = "."

\* x in lower case with an underscore in front of every upper-case letter
\* but the first character, from character n on.
RECURSIVE Underscored(_, _)
Underscored(x, n) ==
  IF n > Len(x)
  THEN <<>>
  ELSE (IF n > 1 /\ IsUpper(x[n]) THEN <<"_">> ELSE <<>>)
         \o <<ToLower(x[n])>> \o Underscored(x, n + 1)

\* One pass over x from character n on that puts new for each old it meets
\* and goes on behind it.
RECURSIVE OnePass(_, _, _, _)
OnePass(x, old, new, n) ==
  IF n > Len(x)
  THEN <<>>
  ELSE IF n + Len(old) - 1 <= Len(x) /\ SubSeq(x, n, n + Len(old) - 1) = old
       THEN new \o OnePass(x, old, new, n + Len(old))
       ELSE <<x[n]>> \o OnePass(x, old, new, n + 1)

\* The name derived from x as the Name Deriver is described.
Derived(x) ==
  CHOOSE y \in
    {OnePass(c, <<"_", "d", "_", "b">>, <<"_", "d", "b">>, 1) :
       c \in {OnePass(b, <<"e", "_", "c", "2">>, <<"e", "c", "2">>, 1) :
                b \in {OnePass(a, <<"a", "_", "w", "_", "s">>,
                               <<"a", "w", "s">>, 1) :
                         a \in {Underscored(x, 1)}}}} : TRUE

\* C14: for every service key <dotted-prefix>#<name> the model name is the
\* last dot-separated segment of the part before '#', the namespace is
\* "aws." followed by the derived name of that segment, and the plugin entry
\* of the configuration carries service = the key, name = the model name,
\* that namespace and outputDir = "generated"; com.amazonaws.s3#AmazonS3
\* gives the name s3 and the namespace aws.s3.
C14_PluginEntry ==
  \A i \in Configured :
    /\ DocOf(i).service = KeyOf(i)
    /\ IsModelNameOf(DocOf(i).name, KeyOf(i))
    /\ DocOf(i).namespace = <<"a", "w", "s", ".">> \o Derived(DocOf(i).name)
    /\ DocOf(i).outputDir = "generated"
    /\ KeyOf(i) = S3Key =>
         /\ DocOf(i).name = <<"s", "3">>
         /\ DocOf(i).namespace = <<"a", "w", "s", ".", "s", "3">>

\* C14 witness: the configuration of the S3 key is written.
C14_Witness ==
  \E i \in Configured :
    /\ build_json_path \in Workspace(i)
    /\ KeyOf(i) = S3Key
    /\ DocOf(i).name = <<"s", "3">>

\* The characters of string x.
CharsOf(x) == {x[n] : n \in 1..Len(x)}

\* The derived name in the configuration of position i: its namespace
\* without the leading "aws.".
ModuleNameOf(i) == SubSeq(DocOf(i).namespace, 5, Len(DocOf(i).namespace))

\* C15: for every non-empty identifier x the Name Deriver returns x in lower
\* case with an underscore in front of each upper-case letter that is not
\* the first character, followed by the replacements "a_w_s" -> "aws",
\* "e_c2" -> "ec2", "_d_b" -> "_db" in that order, each in one pass over the
\* whole string: "DynamoDB" gives "dynamo_db", "AWSLambda" gives
\* "aws_lambda", and no later rule can match text an earlier rule put in.
C15_NameDeriver ==
  /\ \A i \in Configured :
       /\ DocOf(i).name # <<>> =>
            ModuleNameOf(i) = Derived(DocOf(i).name)
       /\ DocOf(i).name = <<"D", "y", "n", "a", "m", "o", "D", "B">> =>
            ModuleNameOf(i) = <<"d", "y", "n", "a", "m", "o", "_", "d", "b">>
       /\ DocOf(i).name = <<"A", "W", "S", "L", "a", "m", "b", "d", "a">> =>
            ModuleNameOf(i) =
              <<"a", "w", "s", "_", "l", "a", "m", "b", "d", "a">>
  /\ \A m, n \in 1..Len(Replacements) :
       m < n =>
         CharsOf(Replacements[n].old) \cap CharsOf(Replacements[m].new) = {}

\* C15 witness: the configuration of the model name "AWSLambda" is written
\* with the derived name "aws_lambda".
C15_Witness ==
  \E i \in Configured :
    /\ KeyOf(i) = AWSLambdaKey
    /\ DocOf(i).name = <<"A", "W", "S", "L", "a", "m", "b", "d", "a">>
    /\ ModuleNameOf(i) = <<"a", "w", "s", "_", "l", "a", "m", "b", "d", "a">>

\* C11: over any sequence of executions of a unit's pipeline on the same
\* output tree, after each execution has ended errors.txt is in the unit's
\* workspace only if the build outcome of that execution is failed.
C11_ErrorsOnlyAfterFailure ==
  \A i \in Done :
    errors_txt \in Workspace(i) => task[i].result = "failed"

\* C13: running the pipeline again for the same unit with an unchanged
\* description file does not fail because the workspace directories exist,
\* and the configuration document the later run writes is the one the
\* earlier run wrote.
C13_RerunIdempotent ==
  /\ [](\A i \in Indices : task[i].exc # "FileExistsError")
  /\ [][\A i \in Indices :
          (build_json_path \in Workspace(i)
             /\ "Synthesizer" \notin StagesOf(i)
             /\ "Invoker" \in StagesOf(i)') =>
            /\ DocOf(i) # NoDoc
            /\ DocOf(i)' = DocOf(i)
            /\ {output_path, model_path, model_copy, build_json_path}
                 \subseteq Workspace(i)']_vars

\* C13 witness: a later run is building over the workspace an earlier,
\* failed run left, with the configuration written again.
C13_Witness ==
  \E i \in Indices :
    /\ task[i].pc = "building"
    /\ errors_txt \in Workspace(i)
    /\ DocOf(i) = BuildJson(KeyOf(i))

\* Positions that have run the Synthesizer: the pipelines that have created
\* or written entries of the workspace at path p.
Users(p) ==
  {i \in Indices : WorkspacePath(i) = p /\ "Synthesizer" \in StagesOf(i)}

\* C12: no two unit pipelines running at the same time use the same
\* workspace directory: each workspace, with its log and its build
\* subdirectory, is created, written and deleted by at most one worker.
C12_WorkspaceDisjoint ==
  /\ \A i, j \in Running : i # j => WorkspacePath(i) # WorkspacePath(j)
  /\ \A p \in DOMAIN fs :
       /\ Cardinality(Users(p)) <= 1
       /\ fs[p] # {} => Users(p) # {}

\* C12 witness: two pipelines are in their build at the same time, each with
\* its own log and build subdirectory.
C12_Witness ==
  \E i, j \in Running :
    /\ i # j
    /\ {build_log, build_path} \subseteq Workspace(i) \cap Workspace(j)

\* s is the start of t.
IsPrefix(s, t) == Len(s) <= Len(t) /\ s = SubSeq(t, 1, Len(s))

\* The stages of a pipeline whose build succeeded: all but the Extractor.
SuccessOrder == SelectSeq(StageOrder, LAMBDA n : n # "Extractor")

\* C16: the stages of a pipeline run in the order Locator, Resolver,
\* Synthesizer, Build Invoker, Extractor (only after a failed build),
\* Cleaner; the Cleaner is the last stage on the success and build-failure
\* paths, after errors.txt is written and before the result record is
\* printed.
C16_StageOrder ==
  \A i \in Indices :
    /\ IsPrefix(task[i].stages, StageOrder)
         \/ IsPrefix(task[i].stages, SuccessOrder)
    /\ "Extractor" \in StagesOf(i) => task[i].build_result \notin {-1, 0}
    /\ ("Cleaner" \in StagesOf(i) /\ task[i].build_result # 0) =>
         /\ "Extractor" \in StagesOf(i)
         /\ errors_txt \in Workspace(i)
    /\ Status(i) \in {"Succeeded", "Failed"} =>
         /\ Len(task[i].stages) >= 2
         /\ SubSeq(task[i].stages, Len(task[i].stages) - 1,
                   Len(task[i].stages)) = <<"Cleaner", "Report">>
         /\ build_path \notin Workspace(i)
    /\ (\E n \in 1..Len(task[i].printed) :
          task[i].printed[n] \in {"success", "failed"}) =>
         LastStage(i) = "Report"

\* C16 witness: a pipeline has run all six stages and printed its record.
C16_Witness ==
  \E i \in Indices :
    /\ task[i].stages = StageOrder
    /\ Status(i) = "Failed"

\* How many times x occurs in sequence s.
Count(s, x) == Cardinality({n \in 1..Len(s) : s[n] = x})

\* C17: each unit is submitted once, in input order, and its build is
\* invoked at most once; a unit that is Failed, Skipped or Errored is never
\* submitted or built again.
C17_NoRetry ==
  /\ [](\A i \in Indices :
          /\ Count(task[i].stages, "Invoker") <= 1
          /\ Count(task[i].printed, "building") <= 1
          /\ Count(task[i].stages, "Locator") <= 1)
  /\ [](Submitted = 1..Cardinality(Submitted))
  /\ [][\A i \in Indices :
          /\ (task[i].pc # "pending" /\ task'[i].pc = "pending") =>
               task[i].pc = "unsubmitted"
          /\ task'[i].pc # "unsubmitted" \/ task[i].pc = "unsubmitted"
          /\ Status(i) \in Terminal =>
               /\ Status(i)' = Status(i)
               /\ task'[i].stages = task[i].stages
               /\ task'[i].build_result = task[i].build_result
               /\ Workspace(i)' = Workspace(i)]_vars

\* C17 witness: the run is over with one unit Failed after one build and
\* another Errored or Skipped, neither run again.
C17_Witness ==
  /\ mainpc = "done"
  /\ \E i, j \in Indices :
       /\ Status(i) = "Failed"
       /\ Count(task[i].stages, "Invoker") = 1
       /\ Status(j) \in {"Errored", "Skipped"}

\* The build command of the first unit has been started and does not exit.
Hanging == 1 \in Indices /\ task[1].pc = "building"

\* C18: there is no timeout or cancellation: a unit leaves Running only when
\* its build command exits; if a build never terminates its unit stays
\* Running for ever, its worker is never released and the summary is never
\* printed, while the units on the other workers still reach terminal
\* states.
C18_NoTimeout ==
  /\ [][\A i \in Indices :
          (task[i].pc = "building" /\ task'[i].pc # "building") =>
            Exited(i)']_vars
  /\ [][Hanging => Hanging']_vars
  /\ [](Hanging =>
          /\ Status(1) = "Running"
          /\ 1 \in Running
          /\ 1 \notin collected
          /\ mainpc # "done")
  /\ Hanging ~> (\A j \in Exiting : Status(j) \in Terminal /\ j \in collected)

\* C18 witness: the first build hangs while another unit has reached a
\* terminal state and been collected, and main() waits.
C18_Witness ==
  /\ Hanging
  /\ mainpc = "collect"
  /\ \E j \in Exiting : Status(j) \in {"Succeeded", "Failed"} /\ j \in collected

\* What the Synthesizer leaves in a workspace, and the open build log.
BuildInputs ==
  {output_path, model_path, build_path, model_copy, build_json_path, build_log}

\* C19: while a unit's build is active its build subdirectory, its model
\* subdirectory with the copy of the source, its configuration file and its
\* open log all exist; a build is not started before the Synthesizer has
\* created the whole workspace, and nothing removes the build subdirectory
\* before the invocation has returned.
C19_BuildPreconditions ==
  /\ [](\A i \in Running :
          /\ BuildInputs \subseteq Workspace(i)
          /\ DocOf(i) = BuildJson(KeyOf(i)))
  /\ [][\A i \in Indices :
          /\ ("Invoker" \notin StagesOf(i) /\ "Invoker" \in StagesOf(i)') =>
               /\ "Synthesizer" \in StagesOf(i)'
               /\ BuildInputs \ {build_log} \subseteq Workspace(i)'
          /\ (build_path \in Workspace(i) /\ build_path \notin Workspace(i)') =>
               /\ task[i].pc # "building" \/ Exited(i)'
               /\ LastStage(i)' \in {"Cleaner", "Report"}]_vars

\* C19 witness: a build is active over a complete workspace.
C19_Witness ==
  \E i \in Running :
    /\ BuildInputs \subseteq Workspace(i)
    /\ task[i].stages = <<"Locator", "Resolver", "Synthesizer", "Invoker">>

\* The exceptions of the Service-Key Resolver.
ResolverRaised(e) == e \in {"ParseError", "ResolutionError"}

\* C20: a unit whose description file fails to parse or holds no service
\* entry becomes Errored before any side effect on the filesystem: the
\* workspace directories, the configuration, the log and errors.txt are left
\* as they were, and no build is invoked.
C20_ResolverFrame ==
  /\ [][\A i \in Indices :
          (task[i].exc = "none" /\ ResolverRaised(task'[i].exc)) =>
            /\ Status(i)' = "Errored"
            /\ fs' = fs
            /\ build_json' = build_json
            /\ task'[i].stages = <<"Locator", "Resolver">>]_vars
  /\ [](\A i \in Indices :
          ResolverRaised(task[i].exc) =>
            /\ "Invoker" \notin StagesOf(i)
            /\ Count(task[i].printed, "building") = 0
            /\ task[i].build_result = -1)

\* C20 witness: a unit is Errored by a parse failure in a run over the
\* workspace an earlier run left, which is still in place.
C20_Witness ==
  \E i \in Indices :
    /\ task[i].exc = "ParseError"
    /\ Status(i) = "Errored"
    /\ {model_path, build_json_path, build_log} \subseteq Workspace(i)

====
